---- MODULE Spec2Model ----
(***************************************************************************)
(* A model of the vptr crate: the #[vptr(...)] attribute macro             *)
(* (src/macros/macros.rs) and the thin handles ThinRef, ThinRefMut and     *)
(* ThinBox built over the slots the macro adds (src/src/lib.rs).           *)
(*                                                                         *)
(* Five specifications share the module.  SpecGen explores the macro over  *)
(* bounded attribute lists and struct declarations.  Spec runs a program   *)
(* made of the structs of the crate's test module, expanded by the same    *)
(* macro operators, over a small byte-addressed heap.  SpecPin runs the    *)
(* programs that borrow their objects through Pin, SpecMove the programs   *)
(* that move and copy their objects, and SpecInit the threads that call    *)
(* the generated init() at once.                                           *)
(***************************************************************************)
EXTENDS Integers, Sequences, FiniteSets, TLC

VARIABLES
    attr,         \* the attribute's arguments (AttributeArgs)
    item,         \* the struct declaration the attribute is on (ItemStruct)
    result,       \* what the macro returned for them
    layout,       \* the layout the compiler gave the expanded struct
    objs,         \* the objects constructed so far, in allocation order
    xx,           \* the thin reference the program holds, or NoRef
    tbox,         \* the ThinBox alive, or NoBox
    dbox,         \* the Box<dyn Trait> alive, or NoBox
    last,         \* what the last dereference or call returned
    statics,      \* the memory of the VTABLE statics, one per impl block
    threads       \* the threads that call init(), each with what it holds

genVars == <<attr, item, result>>
rtVars == <<layout, objs, xx, tbox, dbox, last>>
regVars == <<statics, threads>>
vars == <<attr, item, result, layout, objs, xx, tbox, dbox, last, statics, threads>>

(***************************************************************************)
(* Bounds of the macro's inputs.                                           *)
(***************************************************************************)
MaxCaps == 2
MaxFields == 2
MaxGenerics == 1

(***************************************************************************)
(* Part 1: the attribute macro, src/macros/macros.rs                       *)
(***************************************************************************)

\* A path is the sequence of its segments' identifiers.
TraitPaths == { <<"MyTrait">>, <<"SomeOtherTrait">>, <<"fmt", "Display">> }

\* The token strings of the string literals tried as arguments: two that
\* parse as a path, one with a dangling "::", and the empty literal.
StrLits == { <<"MyTrait">>, <<"fmt", "::", "Display">>, <<"MyTrait", "::">>, <<>> }

\* syn::NestedMeta: Meta(Path), Lit(Str), and the shapes that are neither,
\* Meta(List) as in vptr(Foo(x)) and Lit(Int) as in vptr(3).
PathArg(p) == [kind |-> "Path", path |-> p, toks |-> <<>>]
StrArg(t) == [kind |-> "LitStr", path |-> <<>>, toks |-> t]
OtherArg(k) == [kind |-> k, path |-> <<>>, toks |-> <<>>]

NestedMeta ==
    { PathArg(p) : p \in TraitPaths } \cup { StrArg(t) : t \in StrLits }
        \cup { OtherArg(k) : k \in {"MetaList", "LitInt"} }

\* The messages of the errors the macro returns.
ErrNotTrait == "attribute of vptr must be a trait"
ErrGenerics == "vptr does not support generics"
ErrParsePath == "path parse error"

OkPath(p) == [ok |-> TRUE, path |-> p, err |-> ""]
ErrPath(e) == [ok |-> FALSE, path |-> <<>>, err |-> e]

IsIdent(t) == t \notin {"::", "!"}

\* lit_str.parse::<syn::Path>(): identifiers separated by "::", the whole
\* literal consumed.
RECURSIVE ParseSegments(_, _)
ParseSegments(toks, acc) ==
    IF toks = <<>> \/ ~IsIdent(Head(toks))
    THEN ErrPath(ErrParsePath)
    ELSE LET acc2 == Append(acc, Head(toks))
             rest == Tail(toks)
         IN  IF rest = <<>> THEN OkPath(acc2)
             ELSE IF Head(rest) = "::" THEN ParseSegments(Tail(rest), acc2)
             ELSE ErrPath(ErrParsePath)

ParsePath(toks) == ParseSegments(toks, <<>>)

\* The closure mapped over the attribute list (macros.rs 52-63).
ArgToPath(a) ==
    IF a.kind = "Path" THEN OkPath(a.path)
    ELSE IF a.kind = "LitStr" THEN ParsePath(a.toks)
    ELSE ErrPath(ErrNotTrait)

\* A collection that drops the arguments that are no trait (a filter_map).
RECURSIVE CollectPathsLenient(_, _)
CollectPathsLenient(args, acc) ==
    IF args = <<>> THEN [ok |-> TRUE, paths |-> acc, err |-> ""]
    ELSE LET r == ArgToPath(Head(args))
         IN  CollectPathsLenient(Tail(args),
                                 IF r.ok THEN Append(acc, r.path) ELSE acc)

\* collect::<Result<Vec<_>, _>>(): the paths in order, or the first error.
RECURSIVE CollectPaths(_, _)
CollectPaths(args, acc) ==
    IF args = <<>> THEN [ok |-> TRUE, paths |-> acc, err |-> ""]
    ELSE LET r == ArgToPath(Head(args))
         IN  IF r.ok THEN CollectPaths(Tail(args), Append(acc, r.path))
             ELSE [ok |-> FALSE, paths |-> <<>>, err |-> r.err]

\* generics.type_params().next(): is there a type parameter.
HasTypeParam(generics) == \E i \in 1..Len(generics) : generics[i] = "type"

LastSegment(p) == p[Len(p)]

\* The type of a slot field: vptr::VPtr<#ident #ty_generics, dyn #trait_>.
VPtrTy(ident, trait) == [con |-> "VPtr", of |-> ident, trait |-> trait]

\* A slot name that leaves the capability out.
NamedSlotNameFixed(trait) == "vptr_"

\* quote::format_ident!("vptr_{}", t.segments.last().unwrap().ident)
NamedSlotName(trait) == "vptr_" \o LastSegment(trait)

\* An index that counts the slots from 0 whatever fields come before them.
UnnamedSlotIndexFromZero(i, count) == i

\* syn::Index::from(i + count), i counted from 0.
UnnamedSlotIndex(i, count) == i + count

\* The field of the i-th capability (i from 1) and the fields after the push
\* loops, for a named struct (macros.rs 72-87) and for a tuple-like or unit
\* struct (macros.rs 88-112).
SlotFieldName(kind, i, trait, count) ==
    IF kind = "Named" THEN NamedSlotName(trait)
    ELSE UnnamedSlotIndex(i - 1, count)

AugmentedFields(it, paths) ==
    LET old == IF it.kind = "Unit" THEN <<>> ELSE it.fields
        count == Len(old)
    IN  old \o [ i \in 1..Len(paths) |->
                   [name |-> SlotFieldName(it.kind, i, paths[i], count),
                    ty |-> VPtrTy(it.ident, paths[i])] ]

AugmentedKind(it) == IF it.kind = "Named" THEN "Named" ELSE "Unnamed"

\* One unsafe impl HasVPtr<dyn #trait_> block per capability
\* (macros.rs 118-140): the trait, and the field init() probes and
\* get_vptr / get_vptr_mut return.
ImplBlocks(it, paths) ==
    LET count == IF it.kind = "Unit" THEN 0 ELSE Len(it.fields)
    IN  [ i \in 1..Len(paths) |->
            [trait |-> paths[i],
             field |-> SlotFieldName(it.kind, i, paths[i], count)] ]

GenOk(it, paths) ==
    [ok |-> TRUE, err |-> "", ident |-> it.ident, generics |-> it.generics,
     kind |-> AugmentedKind(it), fields |-> AugmentedFields(it, paths),
     impls |-> ImplBlocks(it, paths)]

GenErr(e) ==
    [ok |-> FALSE, err |-> e, ident |-> "", generics |-> <<>>,
     kind |-> "", fields |-> <<>>, impls |-> <<>>]

\* A check that refuses any generic parameter, lifetimes included.
RejectsAnyGenericParam(generics) == Len(generics) > 0

\* The check of macros.rs 66-68.
RejectsGenerics(generics) == HasTypeParam(generics)

\* fn vptr_impl(attr, item) -> Result<TokenStream, syn::Error>
vptr_impl(at, it) ==
    LET c == CollectPaths(at, <<>>)
    IN  IF ~c.ok THEN GenErr(c.err)
        ELSE IF RejectsGenerics(it.generics) THEN GenErr(ErrGenerics)
        ELSE GenOk(it, c.paths)

\* pub fn vptr(attr, item) -> TokenStream: the expansion, or the error turned
\* into a compile_error and nothing else.
vptr(at, it) == vptr_impl(at, it)

(***************************************************************************)
(* Part 2: the program.  The structs of the test module of src/src/lib.rs, *)
(* each with the attribute it carries there.                               *)
(***************************************************************************)
U32 == [con |-> "u32", of |-> "", trait |-> <<>>]

\* #[vptr(MyTrait, SomeOtherTrait)] struct Foobar3 { q: u32 }
Foobar3 ==
    [attr |-> << PathArg(<<"MyTrait">>), PathArg(<<"SomeOtherTrait">>) >>,
     item |-> [ident |-> "Foobar3", kind |-> "Named",
               fields |-> << [name |-> "q", ty |-> U32] >>, generics |-> <<>>]]

\* #[vptr(MyTrait)] struct Tuple(u32, u32);
Tuple ==
    [attr |-> << PathArg(<<"MyTrait">>) >>,
     item |-> [ident |-> "Tuple", kind |-> "Unnamed",
               fields |-> << [name |-> 0, ty |-> U32], [name |-> 1, ty |-> U32] >>,
               generics |-> <<>>]]

\* #[vptr(MyTrait)] struct Empty1;
Empty1 ==
    [attr |-> << PathArg(<<"MyTrait">>) >>,
     item |-> [ident |-> "Empty1", kind |-> "Unit", fields |-> <<>>,
               generics |-> <<>>]]

Programs == { Foobar3, Tuple, Empty1 }

(***************************************************************************)
(* Bounds of the program's runs.                                           *)
(***************************************************************************)
MaxObjects == 2
MaxVal == 1

(***************************************************************************)
(* The layout of the expanded struct.  The compiler fixes one offset per   *)
(* field for the whole build; the order is its choice (repr(Rust)), so     *)
(* both the declared order and its reverse are explored.                   *)
(***************************************************************************)
PtrSize == 8
U32Size == 4

Fields == result.fields
Impls == result.impls
NumFields == Len(Fields)

IsSlot(p) == Fields[p].ty.con = "VPtr"
UserPositions == { p \in 1..NumFields : ~IsSlot(p) }

SizeOfTy(ty) == IF ty.con = "VPtr" THEN PtrSize ELSE U32Size
AlignOfTy(ty) == SizeOfTy(ty)

AlignUp(n, a) == ((n + a - 1) \div a) * a

\* The order the fields are placed in: declaration positions.
PlacementOrder(n, order) ==
    IF order = "declared" THEN [ k \in 1..n |-> k ]
    ELSE [ k \in 1..n |-> n + 1 - k ]

\* Places the fields one after the other in the given order, each at the
\* next offset its alignment allows; offs maps declaration positions to
\* offsets, end is the offset past the fields placed so far.
RECURSIVE PlaceFields(_, _, _, _, _)
PlaceFields(fs, po, k, end, offs) ==
    IF k > Len(fs) THEN [offset |-> offs, end |-> end]
    ELSE LET p == po[k]
             at == AlignUp(end, AlignOfTy(fs[p].ty))
         IN  PlaceFields(fs, po, k + 1, at + SizeOfTy(fs[p].ty),
                         [offs EXCEPT ![p] = at])

LayoutOf(fs, order) ==
    LET r == PlaceFields(fs, PlacementOrder(Len(fs), order), 1, 0,
                         [ p \in 1..Len(fs) |-> 0 ])
    IN  [order |-> order, offset |-> r.offset, size |-> AlignUp(r.end, PtrSize)]

\* The byte offset of the field at declaration position p.
FieldOffset(p) == layout.offset[p]

StructSize == layout.size

\* The declaration position of the field an expression self.#field_name names.
FieldPos(name) == CHOOSE p \in 1..NumFields : Fields[p].name = name

\* &x.#field_name for x at address base.
FieldAddr(base, name) == base + FieldOffset(FieldPos(name))

(***************************************************************************)
(* Dispatch tables and the generated HasVPtr::init (macros.rs 121-134).    *)
(***************************************************************************)
\* The dispatch table the compiler emits for (type, trait): the second word
\* of the coercion of &T to &dyn Trait.
VtableOf(ident, trait) == [ty |-> ident, trait |-> trait]
NoVtable == [ty |-> "", trait |-> <<>>]

\* A probe at the first non-null aligned address, its base not subtracted.
ProbeBaseNonNull == PtrSize

\* TransmuterPtr { int: 0 }.ptr
ProbeBase == 0

\* offset: TransmuterPtr { ptr: &x.#field_name }.int, x at address 0.
ProbeOffset(im) == FieldAddr(ProbeBase, im.field)

\* vtable: TransmuterTO::<dyn #trait_>{ ptr: x }.to.vtable
ProbeVtable(im) == VtableOf(result.ident, im.trait)

\* static VTABLE : VTableData of the i-th impl block.
VTABLE(i) == [offset |-> ProbeOffset(Impls[i]), vtable |-> ProbeVtable(Impls[i])]

\* A word of memory: a u32, a &'static VTableData (the impl block whose
\* VTABLE it points to), or anything else.
U32Word(v) == [tag |-> "u32", v |-> v]
StaticRef(i) == [tag |-> "vtable_data", v |-> i]
Junk == [tag |-> "junk", v |-> 0]

\* fn init() -> &'static VTableData { ... &VTABLE }
init(i) == StaticRef(i)

\* VPtr::new(): VPtr { vtable: T::init(), phantom } (lib.rs 199-204).
VPtr_new(i) == init(i)

\* A Default that takes the init() of the first capability whatever the
\* Trait of the VPtr is.
VPtr_default_first(i) == init(1)

\* Default for VPtr: VPtr::new() (lib.rs 207-216).
VPtr_default(i) == VPtr_new(i)

\* #[derive(Clone, Copy)] on VPtr: the copy of a VPtr is the same word.
VPtr_clone(w) == w

\* The impl block of the slot at declaration position p.
ImplOfSlot(p) == CHOOSE i \in 1..Len(Impls) : FieldPos(Impls[i].field) = p

\* Statics in zeroed memory, left for init() to fill on first use.
StaticsZeroed == [ i \in 1..Len(Impls) |-> [offset |-> 0, vtable |-> NoVtable] ]

\* The memory of the statics when the program starts: a static's
\* initializer is evaluated by the compiler, and no code writes to it.
StaticsAtLoad == [ i \in 1..Len(Impls) |-> VTABLE(i) ]

\* Reading a VTableData through a reference to it.
VTableDataAt(w) ==
    IF w.tag = "vtable_data" /\ w.v \in 1..Len(Impls) THEN statics[w.v]
    ELSE [offset |-> 0, vtable |-> NoVtable]

\* #[derive(PartialEq)] on VPtr and on VTableData: two VPtr are equal when
\* the VTableData they refer to have equal fields.
VPtr_eq(a, b) == VTableDataAt(a) = VTableDataAt(b)

(***************************************************************************)
(* The heap.                                                               *)
(***************************************************************************)
ObjIds == 1..Len(objs)

\* The null address.
NullAddr == 0

\* The address of the i-th object: objects lie one after the other, from
\* the first aligned address that is not null.
BaseOf(i) == PtrSize + (i - 1) * StructSize

\* The word at an address: the field of a live object there, if any.
HasWordAt(os, a) ==
    \E i \in 1..Len(os) : os[i].live /\
        \E p \in 1..NumFields : os[i].base + FieldOffset(p) = a

ReadWord(os, a) ==
    IF HasWordAt(os, a)
    THEN LET i == CHOOSE i \in 1..Len(os) : os[i].live /\
                     \E p \in 1..NumFields : os[i].base + FieldOffset(p) = a
             p == CHOOSE p \in 1..NumFields : os[i].base + FieldOffset(p) = a
         IN  os[i].vals[p]
    ELSE Junk

WriteWord(os, a, w) ==
    [ i \in 1..Len(os) |->
        IF os[i].live
        THEN [os[i] EXCEPT !.vals =
                [ p \in 1..NumFields |->
                    IF os[i].base + FieldOffset(p) = a THEN w ELSE os[i].vals[p] ]]
        ELSE os[i] ]

\* The user field myfn reads (q of Foobar3, .1 of Tuple), if there is one.
MyfnPositions ==
    { p \in UserPositions : Fields[p].name = (IF result.kind = "Named" THEN "q" ELSE 1) }

\* A struct expression: v in the field myfn reads, 0 in the other user
\* fields, every slot VPtr::new().
NewObject(base, v) ==
    [base |-> base, live |-> TRUE, owner |-> "box", drops |-> 0, old |-> NullAddr,
     vals |-> [ p \in 1..NumFields |->
                 IF IsSlot(p) THEN VPtr_new(ImplOfSlot(p))
                 ELSE IF p \in MyfnPositions THEN U32Word(v) ELSE U32Word(0) ]]

\* T::default() of #[derive(Default)]: every field its type's default, 0
\* for a u32 and VPtr::default() for a slot.
DefaultObject(base) ==
    [base |-> base, live |-> TRUE, owner |-> "box", drops |-> 0, old |-> NullAddr,
     vals |-> [ p \in 1..NumFields |->
                 IF IsSlot(p) THEN VPtr_default(ImplOfSlot(p)) ELSE U32Word(0) ]]

\* A move that carries the user fields over and leaves the slots of the
\* new place unset.
MovedWithoutSlots(ob, to) ==
    [ob EXCEPT !.base = to, !.old = ob.base,
               !.vals = [ p \in 1..NumFields |->
                            IF IsSlot(p) THEN Junk ELSE ob.vals[p] ]]

\* A move of a value, or a bitwise copy of it: the same words at another
\* base address.  old keeps the address it came from.
Moved(ob, to) == [ob EXCEPT !.base = to, !.old = ob.base]

\* The place an object moves to: a second place of its own, past the
\* places objects are built in.
OtherPlace(os, o) == BaseOf(MaxObjects + o)

(***************************************************************************)
(* The impls of MyTrait in the test module (lib.rs 601-605, 679-683,       *)
(* 696-700), called through a dynamic reference (data, vtable).            *)
(***************************************************************************)
\* self.#name read through a self at address data.
ReadField(os, data, name) == ReadWord(os, data + FieldOffset(FieldPos(name)))

Returned(w, plus) ==
    IF w.tag = "u32" THEN [ub |-> FALSE, val |-> w.v + plus]
    ELSE [ub |-> TRUE, val |-> 0]

myfn(os, fat) ==
    IF fat.vtable = VtableOf("Foobar3", <<"MyTrait">>) /\ result.ident = "Foobar3"
    THEN Returned(ReadField(os, fat.data, "q"), 4)
    ELSE IF fat.vtable = VtableOf("Tuple", <<"MyTrait">>) /\ result.ident = "Tuple"
    THEN Returned(ReadField(os, fat.data, 1), 0)
    ELSE IF fat.vtable = VtableOf("Empty1", <<"MyTrait">>) /\ result.ident = "Empty1"
    THEN [ub |-> ~HasWordAt(os, fat.data), val |-> 88]
    ELSE IF fat.vtable = VtableOf(result.ident, <<"SomeOtherTrait">>)
    THEN [ub |-> ~HasWordAt(os, fat.data), val |-> 0]
    ELSE [ub |-> TRUE, val |-> 0]

\* The coercion of a plain &T to &dyn Trait for the i-th capability.
DirectDyn(base, i) == [data |-> base, vtable |-> VtableOf(result.ident, Impls[i].trait)]

\* An assignment to the user field at position p made through a &mut dyn
\* Trait by a method of the type the dispatch table belongs to.
WriteField(os, fat, p, v) ==
    IF fat.vtable.ty = result.ident
    THEN WriteWord(os, fat.data + FieldOffset(p), U32Word(v))
    ELSE os

(***************************************************************************)
(* Part 3: the handles of src/src/lib.rs.  A handle value is the one       *)
(* address it stores (ptr); kind and im are its static type (which handle, *)
(* which trait); of is the object it was borrowed from, kept for the       *)
(* borrow rules and the properties and never read by an operation.         *)
(***************************************************************************)
\* A ThinBox over a raw pointer, which may be null.
ThinBoxFieldsRaw == << [name |-> "0", ty |-> "*mut"], [name |-> "1", ty |-> "PhantomData"] >>

\* The field lists of the three handle structs (lib.rs 297-300, 352-355, 448).
ThinRefFields == << [name |-> "ptr", ty |-> "&"], [name |-> "phantom", ty |-> "PhantomData"] >>
ThinRefMutFields == << [name |-> "ptr", ty |-> "&mut"], [name |-> "phantom", ty |-> "PhantomData"] >>
ThinBoxFields == << [name |-> "0", ty |-> "NonNull"], [name |-> "1", ty |-> "PhantomData"] >>

\* The size of a field type in machine words, and whether it has a value
\* no instance takes (null), which Option uses for None.
WordsOfTy(ty) == IF ty = "PhantomData" THEN 0 ELSE 1
HasNiche(ty) == ty \in {"&", "&mut", "NonNull"}

RECURSIVE SumWords(_)
SumWords(fs) == IF fs = <<>> THEN 0 ELSE WordsOfTy(Head(fs).ty) + SumWords(Tail(fs))

\* mem::size_of::<H>() and mem::size_of::<Option<H>>(), in words.
SizeOfWords(fs) == SumWords(fs)
OptionSizeOfWords(fs) ==
    IF \E k \in 1..Len(fs) : HasNiche(fs[k].ty) THEN SumWords(fs)
    ELSE SumWords(fs) + 1

\* fn get_vptr(&self) -> &VPtr<Self, dyn #trait_> { &self.#field_name }
get_vptr(base, i) == FieldAddr(base, Impls[i].field)
\* fn get_vptr_mut(&mut self) -> &mut VPtr<..> { &mut self.#field_name }
get_vptr_mut(base, i) == FieldAddr(base, Impls[i].field)

Handle(kind, i, ptr, of) == [kind |-> kind, im |-> i, ptr |-> ptr, of |-> of]

\* ThinRef::new: ThinRef { ptr: &ptr.vtable, phantom }
ThinRef_new(i, vptrAddr, of) == Handle("ThinRef", i, vptrAddr, of)
\* ThinRefMut::new: ThinRefMut { ptr: &mut ptr.vtable, phantom }
ThinRefMut_new(i, vptrAddr, of) == Handle("ThinRefMut", i, vptrAddr, of)

\* HasVPtr::as_thin_ref, From<&T> for ThinRef, and their mutable twins.
as_thin_ref(o, i) == ThinRef_new(i, get_vptr(objs[o].base, i), o)
ThinRef_from(o, i) == ThinRef_new(i, get_vptr(objs[o].base, i), o)
as_thin_ref_mut(o, i) == ThinRefMut_new(i, get_vptr_mut(objs[o].base, i), o)
ThinRefMut_from(o, i) == ThinRefMut_new(i, get_vptr_mut(objs[o].base, i), o)

\* A reference that exists while a handle is being made: its type and the
\* address it refers to.
Temp(ty, to) == [ty |-> ty, to |-> to]

\* Pin::<&T>::get_ref: the &T inside.  Pin::<&mut T>::get_unchecked_mut:
\* the &mut T inside.  Pin::new_unchecked(h): h, marked pinned.
Pin_get_ref(base) == Temp("&Self", base)
Pin_get_unchecked_mut(base) == Temp("&mut Self", base)
Pin_new_unchecked(h) == [h EXCEPT !.kind = "Pin<" \o h.kind \o ">"]

\* Deref for Pin<P>: the handle inside, borrowed.
Pin_as_ref(h) == [h EXCEPT !.kind = IF h.kind = "Pin<ThinRef>" THEN "ThinRef"
                                     ELSE "ThinRefMut"]

\* A pinned thin reference made of the pinned address itself.
as_pin_thin_ref_base(o, i) ==
    LET r == Pin_get_ref(objs[o].base)
    IN  [pin |-> Pin_new_unchecked(ThinRef_new(i, r.to, o)),
         temps |-> << r, Temp("&VPtr", r.to), Temp("ThinRef", r.to) >>]

\* HasVPtr::as_pin_thin_ref (lib.rs 265-271):
\* Pin::new_unchecked(self.get_ref().as_thin_ref())
\* The handle returned, and the references made on the way in order: the
\* &Self of get_ref, the &VPtr of get_vptr, the ThinRef of ThinRef::new.
as_pin_thin_ref(o, i) ==
    LET r == Pin_get_ref(objs[o].base)
        h == as_thin_ref(o, i)
    IN  [pin |-> Pin_new_unchecked(h),
         temps |-> << r, Temp("&VPtr", get_vptr(r.to, i)), Temp("ThinRef", h.ptr) >>]

\* HasVPtr::as_pin_thin_ref_mut (lib.rs 273-279):
\* Pin::new_unchecked(self.get_unchecked_mut().as_thin_ref_mut())
as_pin_thin_ref_mut(o, i) ==
    LET r == Pin_get_unchecked_mut(objs[o].base)
        h == as_thin_ref_mut(o, i)
    IN  [pin |-> Pin_new_unchecked(h),
         temps |-> << r, Temp("&mut VPtr", get_vptr_mut(r.to, i)),
                      Temp("ThinRefMut", h.ptr) >>]

\* The three dereferences of lib.rs 317-326, 372-381 and 385-399:
\* let VTableData { offset, vtable } = **self.ptr;
\* let p = (self.ptr as *const u8).offset(-offset);
\* TraitObject { data: p, vtable }
\* A deref that steps forward from the slot instead of back to the base.
ThinRef_deref_forward(os, ptr) ==
    LET d == VTableDataAt(ReadWord(os, ptr))
    IN  [data |-> ptr + d.offset, vtable |-> d.vtable]

ThinRef_deref(os, ptr) ==
    LET d == VTableDataAt(ReadWord(os, ptr))
    IN  [data |-> ptr - d.offset, vtable |-> d.vtable]

\* A deref that leaves the offset out.
ThinRefMut_deref_unadjusted(os, ptr) ==
    LET d == VTableDataAt(ReadWord(os, ptr))
    IN  [data |-> ptr, vtable |-> d.vtable]

ThinRefMut_deref(os, ptr) ==
    LET d == VTableDataAt(ReadWord(os, ptr))
    IN  [data |-> ptr - d.offset, vtable |-> d.vtable]

\* A deref_mut that hands out the slot's own address as the object's.
ThinRefMut_deref_mut_slot(os, ptr) ==
    LET d == VTableDataAt(ReadWord(os, ptr))
    IN  [data |-> ptr, vtable |-> d.vtable]

ThinRefMut_deref_mut(os, ptr) ==
    LET d == VTableDataAt(ReadWord(os, ptr))
    IN  [data |-> ptr - d.offset, vtable |-> d.vtable]

\* ThinBox::from_box: NonNull::from(&mut Box::leak(f).get_vptr_mut().vtable)
ThinBox_from_box(o, i) == Handle("ThinBox", i, get_vptr_mut(objs[o].base, i), o)

\* ThinBox::as_thin_ref / as_thin_ref_mut: the same address, b.0.as_ref().
ThinBox_as_thin_ref(b) == Handle("ThinRef", b.im, b.ptr, b.of)
ThinBox_as_thin_ref_mut(b) == Handle("ThinRefMut", b.im, b.ptr, b.of)

\* Deref and DerefMut for ThinBox (lib.rs 493-508).
ThinBox_deref(os, b) == ThinRef_deref(os, ThinBox_as_thin_ref(b).ptr)
ThinBox_deref_mut(os, b) == ThinRefMut_deref_mut(os, ThinBox_as_thin_ref_mut(b).ptr)

\* Dropping a Box<dyn Trait>: the destructor and the deallocation of the
\* object at its data address, both found through its dispatch table.
DropBoxDyn(os, fat) ==
    [ k \in 1..Len(os) |->
        IF os[k].base = fat.data /\ fat.vtable.ty = result.ident
        THEN [os[k] EXCEPT !.live = FALSE, !.drops = @ + 1,
                           !.vals = [ p \in 1..NumFields |-> Junk ]]
        ELSE os[k] ]

\* Drop for ThinBox: unsafe { Box::from_raw(ptr) }; dropped at once.
ThinBox_drop(os, b) == DropBoxDyn(os, ThinRefMut_deref_mut(os, ThinBox_as_thin_ref_mut(b).ptr))

\* An into_box without the forget: the ThinBox is dropped on return.
forget_missing(os, b) == ThinBox_drop(os, b)

\* core::mem::forget(b): the ThinBox goes away and its Drop does not run.
forget(os, b) == os

\* An into_box that takes the slot's address for the object's.
ThinBox_into_box_slot(os, b) ==
    [box |-> [data |-> b.ptr,
              vtable |-> ThinRefMut_deref_mut(os, b.ptr).vtable],
     heap |-> forget(os, b)]

\* ThinBox::into_box: the Box<dyn Trait> returned, and the heap after it.
ThinBox_into_box(os, b) ==
    [box |-> ThinRefMut_deref_mut(os, ThinBox_as_thin_ref_mut(b).ptr),
     heap |-> forget(os, b)]

(***************************************************************************)
(* The program's steps.                                                    *)
(***************************************************************************)
NoRef == [kind |-> "none", im |-> 0, ptr |-> 0, of |-> 0]
NoBox == [kind |-> "none", im |-> 0, ptr |-> 0, of |-> 0]
NoDynBox == [im |-> 0, data |-> 0, vtable |-> NoVtable, of |-> 0]
NoLast == [op |-> "none", of |-> 0, im |-> 0, data |-> 0, vtable |-> NoVtable,
           ub |-> FALSE, val |-> 0, temps |-> <<>>]

Observed(op, h, fat, r) ==
    [op |-> op, of |-> h.of, im |-> h.im, data |-> fat.data, vtable |-> fat.vtable,
     ub |-> r.ub, val |-> r.val, temps |-> <<>>]

HandlesOn(o) == IF xx.of = o THEN {xx} ELSE {}
Shared(o) == \A h \in HandlesOn(o) : h.kind \in {"ThinRef", "Pin<ThinRef>"}

Vals == 0..MaxVal

\* No thread is calling init().
NoThreads == <<>>

RtInit ==
    /\ \E pr \in Programs :
        /\ attr = pr.attr
        /\ item = pr.item
        /\ result = vptr(pr.attr, pr.item)
        /\ \E order \in {"declared", "reversed"} :
            layout = LayoutOf(vptr(pr.attr, pr.item).fields, order)
    /\ objs = <<>>
    /\ xx = NoRef
    /\ tbox = NoBox
    /\ dbox = NoDynBox
    /\ last = NoLast
    /\ statics = StaticsAtLoad
    /\ threads = NoThreads

\* let f = Box::new(T { .., vptr fields: VPtr::new() });
New ==
    /\ Len(objs) < MaxObjects
    /\ \E v \in Vals :
        objs' = Append(objs, NewObject(BaseOf(Len(objs) + 1), v))
    /\ last' = NoLast
    /\ UNCHANGED <<statics, threads, attr, item, result, layout, xx, tbox, dbox>>

\* let f = Box::new(T::default());
NewDefault ==
    /\ Len(objs) < MaxObjects
    /\ objs' = Append(objs, DefaultObject(BaseOf(Len(objs) + 1)))
    /\ last' = [NoLast EXCEPT !.op = "Default::default", !.of = Len(objs) + 1]
    /\ UNCHANGED <<statics, threads, attr, item, result, layout, xx, tbox, dbox>>

\* f.#field_name = v, for v a VPtr of the field's type: VPtr::new(),
\* VPtr::default(), or the copy of the same slot of an object g.
AssignSlot ==
    /\ \E o \in ObjIds, i \in 1..Len(Impls) :
        /\ objs[o].owner = "box"
        /\ HandlesOn(o) = {}
        /\ \E v \in {VPtr_new(i), VPtr_default(i)}
                    \cup { VPtr_clone(ReadWord(objs, get_vptr(objs[g].base, i))) :
                             g \in { g \in ObjIds : objs[g].live } } :
            objs' = WriteWord(objs, get_vptr_mut(objs[o].base, i), v)
        /\ last' = NoLast
    /\ UNCHANGED <<statics, threads, attr, item, result, layout, xx, tbox, dbox>>

\* let xx = f.as_thin_ref();  or  ThinRef::from(&f)
AsThinRef ==
    /\ xx = NoRef
    /\ \E o \in ObjIds, i \in 1..Len(Impls) :
        /\ objs[o].owner = "box"
        /\ \E h \in {as_thin_ref(o, i), ThinRef_from(o, i)} : xx' = h
    /\ last' = NoLast
    /\ UNCHANGED <<statics, threads, attr, item, result, layout, objs, tbox, dbox>>

\* let xx = f.as_thin_ref_mut();  or  ThinRefMut::from(&mut f)
AsThinRefMut ==
    /\ xx = NoRef
    /\ \E o \in ObjIds, i \in 1..Len(Impls) :
        /\ objs[o].owner = "box"
        /\ \E h \in {as_thin_ref_mut(o, i), ThinRefMut_from(o, i)} : xx' = h
    /\ last' = NoLast
    /\ UNCHANGED <<statics, threads, attr, item, result, layout, objs, tbox, dbox>>

\* let f: Pin<&T> = ..; let xx: Pin<ThinRef<dyn Trait>> = f.as_pin_thin_ref();
AsPinThinRef ==
    /\ xx = NoRef
    /\ \E o \in ObjIds, i \in 1..Len(Impls) :
        /\ objs[o].owner = "box"
        /\ LET r == as_pin_thin_ref(o, i)
           IN  /\ xx' = r.pin
               /\ last' = [NoLast EXCEPT !.op = "as_pin_thin_ref", !.of = o,
                                         !.im = i, !.temps = r.temps]
    /\ UNCHANGED <<statics, threads, attr, item, result, layout, objs, tbox, dbox>>

\* let f: Pin<&mut T> = ..; let xx: Pin<ThinRefMut<dyn Trait>> = f.as_pin_thin_ref_mut();
AsPinThinRefMut ==
    /\ xx = NoRef
    /\ \E o \in ObjIds, i \in 1..Len(Impls) :
        /\ objs[o].owner = "box"
        /\ LET r == as_pin_thin_ref_mut(o, i)
           IN  /\ xx' = r.pin
               /\ last' = [NoLast EXCEPT !.op = "as_pin_thin_ref_mut", !.of = o,
                                         !.im = i, !.temps = r.temps]
    /\ UNCHANGED <<statics, threads, attr, item, result, layout, objs, tbox, dbox>>

\* xx.myfn() on a Pin<ThinRef>: Deref for Pin, then Deref for ThinRef.
PinThinRefCall ==
    /\ xx.kind = "Pin<ThinRef>"
    /\ LET fat == ThinRef_deref(objs, Pin_as_ref(xx).ptr)
       IN  last' = Observed("Pin<ThinRef>::deref", xx, fat, myfn(objs, fat))
    /\ UNCHANGED <<statics, threads, attr, item, result, layout, objs, xx, tbox, dbox>>

\* xx.myfn() on a Pin<ThinRefMut>: Deref for Pin, then Deref for ThinRefMut.
PinThinRefMutCall ==
    /\ xx.kind = "Pin<ThinRefMut>"
    /\ LET fat == ThinRefMut_deref(objs, Pin_as_ref(xx).ptr)
       IN  last' = Observed("Pin<ThinRefMut>::deref", xx, fat, myfn(objs, fat))
    /\ UNCHANGED <<statics, threads, attr, item, result, layout, objs, xx, tbox, dbox>>

\* xx.myfn() on a ThinRef: deref, then the call through the result.
ThinRefCall ==
    /\ xx.kind = "ThinRef"
    /\ LET fat == ThinRef_deref(objs, xx.ptr)
       IN  last' = Observed("ThinRef::deref", xx, fat, myfn(objs, fat))
    /\ UNCHANGED <<statics, threads, attr, item, result, layout, objs, xx, tbox, dbox>>

\* xx.myfn() on a ThinRefMut.
ThinRefMutCall ==
    /\ xx.kind = "ThinRefMut"
    /\ LET fat == ThinRefMut_deref(objs, xx.ptr)
       IN  last' = Observed("ThinRefMut::deref", xx, fat, myfn(objs, fat))
    /\ UNCHANGED <<statics, threads, attr, item, result, layout, objs, xx, tbox, dbox>>

\* A method taking &mut self called on a ThinRefMut: deref_mut, then the
\* method stores v in the field myfn reads.
ThinRefMutWrite ==
    /\ xx.kind = "ThinRefMut"
    /\ \E p \in MyfnPositions, v \in Vals :
        LET fat == ThinRefMut_deref_mut(objs, xx.ptr)
        IN  /\ objs' = WriteField(objs, fat, p, v)
            /\ last' = Observed("ThinRefMut::deref_mut", xx, fat,
                                [ub |-> ~HasWordAt(objs, fat.data), val |-> v])
    /\ UNCHANGED <<statics, threads, attr, item, result, layout, xx, tbox, dbox>>

\* The thin reference goes out of scope.
EndBorrow ==
    /\ xx # NoRef
    /\ xx' = NoRef
    /\ last' = NoLast
    /\ UNCHANGED <<statics, threads, attr, item, result, layout, objs, tbox, dbox>>

\* let thin = ThinBox::from_box(f);
FromBox ==
    /\ tbox = NoBox
    /\ \E o \in ObjIds, i \in 1..Len(Impls) :
        /\ objs[o].owner = "box"
        /\ HandlesOn(o) = {}
        /\ tbox' = ThinBox_from_box(o, i)
        /\ objs' = [objs EXCEPT ![o].owner = "thin"]
    /\ last' = NoLast
    /\ UNCHANGED <<statics, threads, attr, item, result, layout, xx, dbox>>

\* ThinBox::as_thin_ref(&thin)
ThinBoxAsThinRef ==
    /\ tbox # NoBox
    /\ xx = NoRef
    /\ xx' = ThinBox_as_thin_ref(tbox)
    /\ last' = NoLast
    /\ UNCHANGED <<statics, threads, attr, item, result, layout, objs, tbox, dbox>>

\* ThinBox::as_thin_ref_mut(&mut thin)
ThinBoxAsThinRefMut ==
    /\ tbox # NoBox
    /\ xx = NoRef
    /\ xx' = ThinBox_as_thin_ref_mut(tbox)
    /\ last' = NoLast
    /\ UNCHANGED <<statics, threads, attr, item, result, layout, objs, tbox, dbox>>

\* thin.myfn(): Deref for ThinBox.
ThinBoxCall ==
    /\ tbox # NoBox
    /\ Shared(tbox.of)
    /\ LET fat == ThinBox_deref(objs, tbox)
       IN  last' = Observed("ThinBox::deref", tbox, fat, myfn(objs, fat))
    /\ UNCHANGED <<statics, threads, attr, item, result, layout, objs, xx, tbox, dbox>>

\* A method taking &mut self called on a ThinBox: DerefMut for ThinBox.
ThinBoxWrite ==
    /\ tbox # NoBox
    /\ HandlesOn(tbox.of) = {}
    /\ \E p \in MyfnPositions, v \in Vals :
        LET fat == ThinBox_deref_mut(objs, tbox)
        IN  /\ objs' = WriteField(objs, fat, p, v)
            /\ last' = Observed("ThinBox::deref_mut", tbox, fat,
                                [ub |-> ~HasWordAt(objs, fat.data), val |-> v])
    /\ UNCHANGED <<statics, threads, attr, item, result, layout, xx, tbox, dbox>>

\* let b: Box<dyn Trait> = ThinBox::into_box(thin);
IntoBox ==
    /\ tbox # NoBox
    /\ dbox = NoDynBox
    /\ HandlesOn(tbox.of) = {}
    /\ LET r == ThinBox_into_box(objs, tbox)
       IN  /\ dbox' = [im |-> tbox.im, data |-> r.box.data, vtable |-> r.box.vtable,
                       of |-> tbox.of]
           /\ objs' = [r.heap EXCEPT ![tbox.of].owner = "dyn"]
    /\ tbox' = NoBox
    /\ last' = NoLast
    /\ UNCHANGED <<statics, threads, attr, item, result, layout, xx>>

\* The ThinBox goes out of scope: Drop for ThinBox.
DropThinBox ==
    /\ tbox # NoBox
    /\ HandlesOn(tbox.of) = {}
    /\ objs' = [ThinBox_drop(objs, tbox) EXCEPT ![tbox.of].owner = "none"]
    /\ tbox' = NoBox
    /\ last' = [NoLast EXCEPT !.op = "ThinBox::drop", !.of = tbox.of, !.im = tbox.im]
    /\ UNCHANGED <<statics, threads, attr, item, result, layout, xx, dbox>>

\* The Box<dyn Trait> into_box returned goes out of scope.
DropDynBox ==
    /\ dbox # NoDynBox
    /\ objs' = [DropBoxDyn(objs, dbox) EXCEPT ![dbox.of].owner = "none"]
    /\ dbox' = NoDynBox
    /\ last' = [NoLast EXCEPT !.op = "Box<dyn>::drop", !.of = dbox.of, !.im = dbox.im]
    /\ UNCHANGED <<statics, threads, attr, item, result, layout, xx, tbox>>

\* A Box<T> that was never converted goes out of scope.
DropBox ==
    /\ \E o \in ObjIds :
        /\ objs[o].owner = "box"
        /\ HandlesOn(o) = {}
        /\ objs' = [DropBoxDyn(objs, DirectDyn(objs[o].base, 1))
                    EXCEPT ![o].owner = "none"]
    /\ last' = NoLast
    /\ UNCHANGED <<statics, threads, attr, item, result, layout, xx, tbox, dbox>>

Next ==
    \/ New
    \/ NewDefault
    \/ AssignSlot
    \/ AsThinRef
    \/ AsThinRefMut
    \/ ThinRefCall
    \/ ThinRefMutCall
    \/ ThinRefMutWrite
    \/ EndBorrow
    \/ FromBox
    \/ ThinBoxAsThinRef
    \/ ThinBoxAsThinRefMut
    \/ ThinBoxCall
    \/ ThinBoxWrite
    \/ IntoBox
    \/ DropThinBox
    \/ DropDynBox
    \/ DropBox

Init == RtInit

Spec == Init /\ [][Next]_vars

(***************************************************************************)
(* Programs that pin their objects and borrow them through Pin, as the     *)
(* test tests::pin does (lib.rs 764-782).                                  *)
(***************************************************************************)
PinNext ==
    \/ New
    \/ NewDefault
    \/ AsPinThinRef
    \/ AsPinThinRefMut
    \/ PinThinRefCall
    \/ PinThinRefMutCall
    \/ EndBorrow
    \/ DropBox

SpecPin == Init /\ [][PinNext]_vars

(***************************************************************************)
(* Programs that move their objects.  A value of a type that is not        *)
(* pinned may be moved whenever it is not borrowed: the compiler copies    *)
(* its words to the new place and the old place is dead.                   *)
(***************************************************************************)
\* let g = f;  or  *b = f;  the object o, still where it was built, is
\* now at another address.
Move ==
    /\ \E o \in ObjIds :
        /\ objs[o].live /\ objs[o].owner = "box"
        /\ objs[o].old = NullAddr
        /\ HandlesOn(o) = {}
        /\ objs' = [objs EXCEPT ![o] = Moved(objs[o], OtherPlace(objs, o))]
        /\ last' = [NoLast EXCEPT !.op = "move", !.of = o, !.data = objs[o].base]
    /\ UNCHANGED <<statics, threads, attr, item, result, layout, xx, tbox, dbox>>

\* let g = Box::new(ptr::read(&f));  a bitwise copy of the object o is a
\* new object at its own address.
BitwiseCopy ==
    /\ Len(objs) < MaxObjects
    /\ \E o \in ObjIds :
        /\ objs[o].live /\ objs[o].owner = "box"
        /\ Shared(o)
        /\ objs' = Append(objs, Moved(objs[o], BaseOf(Len(objs) + 1)))
        /\ last' = [NoLast EXCEPT !.op = "copy", !.of = Len(objs) + 1,
                                  !.data = objs[o].base]
    /\ UNCHANGED <<statics, threads, attr, item, result, layout, xx, tbox, dbox>>

MoveNext ==
    \/ New
    \/ Move
    \/ BitwiseCopy
    \/ AsThinRef
    \/ ThinRefCall
    \/ EndBorrow
    \/ FromBox
    \/ ThinBoxCall
    \/ DropThinBox
    \/ DropBox

SpecMove == Init /\ [][MoveNext]_vars

(***************************************************************************)
(* The inputs of the macro: attribute lists and struct declarations.       *)
(***************************************************************************)
SeqsUpTo(S, n) == UNION { [1..k -> S] : k \in 0..n }

FieldNames == <<"q", "r", "s", "t">>

UserFields(kind, k) ==
    [ i \in 1..k |-> [name |-> IF kind = "Named" THEN FieldNames[i] ELSE i - 1,
                      ty |-> [con |-> "u32", of |-> "", trait |-> <<>>]] ]

GenericParams == {"type", "lifetime", "const"}

ItemStructs ==
    { [ident |-> "S", kind |-> kd, fields |-> UserFields(kd, k), generics |-> g] :
        kd \in {"Named", "Unnamed"}, k \in 0..MaxFields,
        g \in SeqsUpTo(GenericParams, MaxGenerics) }
    \cup
    { [ident |-> "S", kind |-> "Unit", fields |-> <<>>, generics |-> g] :
        g \in SeqsUpTo(GenericParams, MaxGenerics) }

AttributeArgs == SeqsUpTo(NestedMeta, MaxCaps)

Pending == [ok |-> FALSE, err |-> "pending", ident |-> "", generics |-> <<>>,
            kind |-> "", fields |-> <<>>, impls |-> <<>>]

GenInit ==
    /\ attr \in AttributeArgs
    /\ item \in ItemStructs
    /\ result = Pending
    /\ layout = LayoutOf(<<>>, "declared")
    /\ objs = <<>>
    /\ xx = NoRef
    /\ tbox = NoBox
    /\ dbox = NoDynBox
    /\ last = NoLast
    /\ statics = <<>>
    /\ threads = NoThreads

\* The compiler expands the attribute on the declaration.
Expand ==
    /\ result = Pending
    /\ result' = vptr(attr, item)
    /\ UNCHANGED <<attr, item, layout, objs, xx, tbox, dbox, last, statics, threads>>

GenNext == Expand

SpecGen == GenInit /\ [][GenNext]_vars

(***************************************************************************)
(* Threads that call init() of the program's impl blocks and read the      *)
(* VTableData they get, in any interleaving.  init() is                    *)
(* "static VTABLE : VTableData = ...; &VTABLE" (macros.rs 121-134):        *)
(* VTableData is Sync (lib.rs 521), so any thread may hold the reference.  *)
(***************************************************************************)
MaxThreads == 2

ThreadIds == 1..MaxThreads

Idle == [pc |-> "idle", im |-> 0, ref |-> Junk, offset |-> 0, vtable |-> NoVtable]

RegInit ==
    /\ \E pr \in Programs :
        /\ attr = pr.attr
        /\ item = pr.item
        /\ result = vptr(pr.attr, pr.item)
        /\ \E order \in {"declared", "reversed"} :
            layout = LayoutOf(vptr(pr.attr, pr.item).fields, order)
    /\ objs = <<>>
    /\ xx = NoRef
    /\ tbox = NoBox
    /\ dbox = NoDynBox
    /\ last = NoLast
    /\ statics = StaticsAtLoad
    /\ threads = [ t \in ThreadIds |-> Idle ]

\* A thread calls <T as HasVPtr<dyn Trait>>::init() of the i-th impl block.
InitEnter ==
    /\ \E t \in ThreadIds, i \in 1..Len(Impls) :
        /\ threads[t].pc = "idle"
        /\ threads' = [threads EXCEPT ![t] = [Idle EXCEPT !.pc = "in_init", !.im = i]]
    /\ UNCHANGED <<attr, item, result, layout, objs, xx, tbox, dbox, last, statics>>

\* init() returns &VTABLE.
InitReturn ==
    /\ \E t \in ThreadIds :
        /\ threads[t].pc = "in_init"
        /\ threads' = [threads EXCEPT ![t].pc = "has_ref",
                                      ![t].ref = init(threads[t].im)]
    /\ UNCHANGED <<attr, item, result, layout, objs, xx, tbox, dbox, last, statics>>

\* The thread reads the offset through the reference.
ReadOffset ==
    /\ \E t \in ThreadIds :
        /\ threads[t].pc = "has_ref"
        /\ threads' = [threads EXCEPT ![t].pc = "read_offset",
                                      ![t].offset = VTableDataAt(threads[t].ref).offset]
    /\ UNCHANGED <<attr, item, result, layout, objs, xx, tbox, dbox, last, statics>>

\* The thread reads the vtable pointer through the reference.
ReadVtable ==
    /\ \E t \in ThreadIds :
        /\ threads[t].pc = "read_offset"
        /\ threads' = [threads EXCEPT ![t].pc = "read_all",
                                      ![t].vtable = VTableDataAt(threads[t].ref).vtable]
    /\ UNCHANGED <<attr, item, result, layout, objs, xx, tbox, dbox, last, statics>>

\* The thread lets go of what it read and may call init() again.
ThreadDone ==
    /\ \E t \in ThreadIds :
        /\ threads[t].pc = "read_all"
        /\ threads' = [threads EXCEPT ![t] = Idle]
    /\ UNCHANGED <<attr, item, result, layout, objs, xx, tbox, dbox, last, statics>>

RegNext ==
    \/ InitEnter
    \/ InitReturn
    \/ ReadOffset
    \/ ReadVtable
    \/ ThreadDone

SpecInit == RegInit /\ [][RegNext]_vars

(***************************************************************************)
(* Properties of the program's runs (Spec).                                *)
(***************************************************************************)
LiveIds == { o \in ObjIds : objs[o].live }
TraitOf(i) == Impls[i].trait
DerefOps == {"ThinRef::deref", "ThinRefMut::deref", "ThinBox::deref"}

\* The slot of capability i, found by its type and not by its name.
SlotPosOf(i) == CHOOSE p \in 1..NumFields : Fields[p].ty = VPtrTy(result.ident, TraitOf(i))

\* C1: a call through a ThinRef made from an object dereferences to (the
\* object's base address, the dispatch table of the capability for the
\* object's type) and returns what the same call returns through the direct
\* dynamic reference to the object.
C1_ThinRefRoundTrip ==
    last.op = "ThinRef::deref" =>
        /\ last.data = objs[last.of].base
        /\ last.vtable = VtableOf(result.ident, TraitOf(last.im))
        /\ ~last.ub
        /\ myfn(objs, DirectDyn(objs[last.of].base, last.im))
               = [ub |-> FALSE, val |-> last.val]

\* A call of myfn through a ThinRef to the second of two objects, whose slot
\* is not at offset 0, that returned q + 4 = 5.
C1_Witness ==
    /\ last.op = "ThinRef::deref"
    /\ result.ident = "Foobar3"
    /\ last.of = 2
    /\ TraitOf(last.im) = <<"MyTrait">>
    /\ xx.ptr # objs[2].base
    /\ last.val = 5

\* C2: the offset in the VTableData init() returns for a capability is, for
\* every instance at every base address and whatever its contents, the
\* address of that instance's slot for the capability minus its base, and
\* the slot there holds the reference init() returns.
C2_OffsetIsSlotDistance ==
    \A i \in 1..Len(Impls) : \A o \in LiveIds :
        /\ VTableDataAt(init(i)).offset
               = (objs[o].base + FieldOffset(SlotPosOf(i))) - objs[o].base
        /\ objs[o].base + VTableDataAt(init(i)).offset = get_vptr(objs[o].base, i)
        /\ ReadWord(objs, objs[o].base + VTableDataAt(init(i)).offset) = init(i)

\* Two live instances at different bases with different contents, the slot
\* at a non-zero offset.
C2_Witness ==
    /\ Len(objs) = 2
    /\ objs[1].live /\ objs[2].live
    /\ objs[1].vals # objs[2].vals
    /\ VTableDataAt(init(1)).offset > 0

\* C3: ThinBox::from_box keeps the object where it is and as it is, and
\* ThinBox::into_box returns a Box of the same allocation (its data address
\* is the object's base) with the capability's dispatch table, every field
\* of the object unchanged and the object not released.
C3_BoxRoundTrip ==
    [][ /\ (tbox = NoBox /\ tbox' # NoBox) =>
              /\ tbox'.ptr = get_vptr_mut(objs[tbox'.of].base, tbox'.im)
              /\ objs'[tbox'.of].base = objs[tbox'.of].base
              /\ objs'[tbox'.of].vals = objs[tbox'.of].vals
              /\ objs'[tbox'.of].live
        /\ (tbox # NoBox /\ dbox = NoDynBox /\ dbox' # NoDynBox) =>
              /\ dbox'.data = objs[tbox.of].base
              /\ dbox'.vtable = VtableOf(result.ident, TraitOf(tbox.im))
              /\ objs'[tbox.of].base = objs[tbox.of].base
              /\ objs'[tbox.of].vals = objs[tbox.of].vals
              /\ objs'[tbox.of].live /\ objs'[tbox.of].drops = 0
      ]_vars

\* A Box<dyn Trait> that came back from a ThinBox of the second object,
\* whose field holds 1 and whose slot is not at offset 0.
C3_Witness ==
    /\ dbox # NoDynBox
    /\ dbox.of = 2
    /\ dbox.data = objs[2].base
    /\ get_vptr_mut(objs[2].base, dbox.im) # objs[2].base
    /\ \E p \in MyfnPositions : objs[2].vals[p] = U32Word(1)

\* C4: an object's destructor and deallocation never run twice, have not
\* run while a Box, a ThinBox or the Box into_box returned still owns it,
\* and have run exactly once when its owner is gone, whether the ThinBox
\* was dropped or converted by into_box and the Box then dropped.
C4_DropsExactlyOnce ==
    /\ \A o \in ObjIds :
        /\ objs[o].drops <= 1
        /\ objs[o].owner # "none" => (objs[o].drops = 0 /\ objs[o].live)
        /\ objs[o].owner = "none" => (objs[o].drops = 1 /\ ~objs[o].live)
    /\ last.op \in {"ThinBox::drop", "Box<dyn>::drop"} =>
           (objs[last.of].drops = 1 /\ ~objs[last.of].live)

\* The Box returned by into_box has just been dropped, after the first
\* object was released and while the ThinBox is gone.
C4_Witness ==
    /\ last.op = "Box<dyn>::drop"
    /\ last.of = 2
    /\ tbox = NoBox
    /\ objs[1].owner = "none"
    /\ objs[2].drops = 1

\* C5: in a type with two different capabilities the two slots are two
\* fields at two offsets, each VTableData holds its own field's offset and
\* its own capability's dispatch table, and a dereference through either
\* slot of an object gives the object's base address with that capability's
\* dispatch table.
C5_TwoCapabilities ==
    (Len(Impls) = 2 /\ TraitOf(1) # TraitOf(2)) =>
        /\ FieldPos(Impls[1].field) # FieldPos(Impls[2].field)
        /\ VTABLE(1).offset # VTABLE(2).offset
        /\ \A i \in 1..2 :
            /\ FieldPos(Impls[i].field) = SlotPosOf(i)
            /\ VTABLE(i).offset = FieldOffset(SlotPosOf(i))
            /\ VTABLE(i).vtable = VtableOf(result.ident, TraitOf(i))
            /\ \A o \in LiveIds :
                 ThinRef_deref(objs, as_thin_ref(o, i).ptr)
                     = [data |-> objs[o].base,
                        vtable |-> VtableOf(result.ident, TraitOf(i))]
        /\ last.op \in DerefOps =>
            /\ last.data = objs[last.of].base
            /\ last.vtable = VtableOf(result.ident, TraitOf(last.im))

\* A dereference through the slot of the second capability of Foobar3.
C5_Witness ==
    /\ Len(Impls) = 2
    /\ last.op = "ThinRef::deref"
    /\ TraitOf(last.im) = <<"SomeOtherTrait">>
    /\ last.data = objs[last.of].base
    /\ xx.ptr # get_vptr(objs[last.of].base, 1)

\* C6: a write through deref_mut of a ThinRefMut of an object changes the
\* written field of that object in place, which a plain read of the object
\* then returns, and changes no other field and no other object.
C6_WriteInPlace ==
    [][ last'.op = "ThinRefMut::deref_mut" =>
          /\ Len(objs') = Len(objs)
          /\ last'.data = objs[xx.of].base
          /\ \A p \in MyfnPositions :
                ReadField(objs', objs'[xx.of].base, Fields[p].name) = U32Word(last'.val)
          /\ \A k \in ObjIds :
                /\ objs'[k].base = objs[k].base
                /\ objs'[k].live = objs[k].live
                /\ \A p \in 1..NumFields :
                      (k # xx.of \/ p \notin MyfnPositions)
                          => objs'[k].vals[p] = objs[k].vals[p]
      ]_vars

\* 1 was written through a ThinRefMut of the second object while the first
\* object keeps 0.
C6_Witness ==
    /\ last.op = "ThinRefMut::deref_mut"
    /\ last.of = 2 /\ last.val = 1
    /\ objs[1].live
    /\ \E p \in MyfnPositions :
        /\ objs[2].vals[p] = U32Word(1)
        /\ objs[1].vals[p] = U32Word(0)

\* C7: ThinRef, ThinRefMut and ThinBox are one machine word each, also
\* inside Option, and the address a handle stores is never null, so the
\* null pattern is free to stand for None.
C7_OneWord ==
    /\ \A fs \in {ThinRefFields, ThinRefMutFields, ThinBoxFields} :
        SizeOfWords(fs) = 1 /\ OptionSizeOfWords(fs) = 1
    /\ xx # NoRef => xx.ptr # NullAddr
    /\ tbox # NoBox => tbox.ptr # NullAddr

\* A ThinRef and a ThinBox alive at once, the ThinBox of a unit struct:
\* its slot is at offset 0 of the object.
C7_Witness ==
    /\ xx.kind = "ThinRef"
    /\ tbox # NoBox
    /\ result.ident = "Empty1"
    /\ tbox.ptr = objs[tbox.of].base

\* The slots of the fields of the program's struct.
SlotPositions == { p \in 1..NumFields : IsSlot(p) }

\* C13: VPtr::new(), VPtr::default() and the copy of either are, for every
\* capability of the type, the reference init() returns for it, new() and
\* default() are equal, and every slot of every live object, built with
\* VPtr::new() or with Default and whatever was assigned to its slots
\* since, holds the reference init() returns for the slot's capability,
\* through which the capability's VTableData is read.
C13_VPtrHoldsInit ==
    /\ \A i \in 1..Len(Impls) :
        /\ VPtr_new(i) = init(i)
        /\ VPtr_default(i) = init(i)
        /\ VPtr_clone(VPtr_new(i)) = init(i)
        /\ VPtr_clone(VPtr_default(i)) = init(i)
        /\ VPtr_new(i) = VPtr_default(i)
        /\ VPtr_eq(VPtr_new(i), VPtr_default(i))
    /\ \A o \in LiveIds : \A p \in SlotPositions :
        /\ objs[o].vals[p] = init(ImplOfSlot(p))
        /\ VTableDataAt(objs[o].vals[p]) = VTABLE(ImplOfSlot(p))
        /\ Fields[p].ty = VPtrTy(result.ident, TraitOf(ImplOfSlot(p)))

\* A second Foobar3 has just been built with Default, while the first,
\* built by a struct expression with VPtr::new() in its two slots, is alive
\* and holds 1 in q.
C13_Witness ==
    /\ Len(Impls) = 2
    /\ Len(objs) = 2 /\ objs[1].live /\ objs[2].live
    /\ last.op = "Default::default" /\ last.of = 2
    /\ objs[1] = NewObject(BaseOf(1), 1)
    /\ objs[2].vals[SlotPosOf(2)] = VPtr_default(2)

(***************************************************************************)
(* Properties of the programs that pin their objects (SpecPin).            *)
(***************************************************************************)
PinOps == {"as_pin_thin_ref", "as_pin_thin_ref_mut"}
PinDerefOps == {"Pin<ThinRef>::deref", "Pin<ThinRefMut>::deref"}
PlainRefTys == {"&Self", "&mut Self"}
DynRefTys == {"&dyn", "&mut dyn"}
TempTys(s) == { s[k].ty : k \in 1..Len(s) }

\* What C14 says of the handle returned: it is pinned, holds the address
\* of the object's slot for the capability, and a call through it
\* dereferences to the object with the capability's dispatch table.
PinnedHandleRight ==
    /\ last.op \in PinOps =>
        /\ xx.kind = (IF last.op = "as_pin_thin_ref" THEN "Pin<ThinRef>"
                      ELSE "Pin<ThinRefMut>")
        /\ xx.of = last.of /\ xx.im = last.im
        /\ xx.ptr = objs[last.of].base + FieldOffset(SlotPosOf(last.im))
        /\ ThinRef_deref(objs, Pin_as_ref(xx).ptr) = DirectDyn(objs[last.of].base, last.im)
    /\ last.op \in PinDerefOps =>
        /\ last.data = objs[last.of].base
        /\ last.vtable = VtableOf(result.ident, TraitOf(last.im))
        /\ ~last.ub
        /\ myfn(objs, DirectDyn(objs[last.of].base, last.im))
               = [ub |-> FALSE, val |-> last.val]

\* C14 as stated: the handle is right, and no unpinned reference to the
\* whole object, plain or dynamic, is made while it is constructed.
C14_AsStated ==
    /\ PinnedHandleRight
    /\ last.op \in PinOps =>
           TempTys(last.temps) \cap (PlainRefTys \cup DynRefTys) = {}

\* C14, amended: the handle is right; its construction makes exactly one
\* unpinned plain reference to the object, the &Self of Pin::get_ref or
\* the &mut Self of Pin::get_unchecked_mut, from which only the address of
\* the slot is taken, and makes no dynamic reference; the construction
\* leaves every object where and as it is.
C14_PinnedThinRef ==
    /\ [](/\ PinnedHandleRight
          /\ last.op \in PinOps =>
              /\ Len(last.temps) = 3
              /\ last.temps[1] =
                     Temp(IF last.op = "as_pin_thin_ref" THEN "&Self" ELSE "&mut Self",
                          objs[last.of].base)
              /\ last.temps[2].to = xx.ptr /\ last.temps[3].to = xx.ptr
              /\ \A k \in 2..3 : last.temps[k].ty \notin PlainRefTys
              /\ TempTys(last.temps) \cap DynRefTys = {})
    /\ [][last'.op \in PinOps => objs' = objs]_vars

\* A Pin<ThinRefMut> has just been made of the second of two Foobar3, for
\* its second capability, whose slot is not at the object's base.
C14_Witness ==
    /\ last.op = "as_pin_thin_ref_mut"
    /\ last.of = 2 /\ last.im = 2
    /\ Len(Impls) = 2
    /\ xx.kind = "Pin<ThinRefMut>"
    /\ xx.ptr # objs[2].base
    /\ objs[1].live

FiveDerefOps == {"ThinRef::deref", "ThinRefMut::deref", "ThinRefMut::deref_mut",
                 "ThinBox::deref", "ThinBox::deref_mut"}

\* The slot words of the objects.
SlotWords(os) == [ o \in 1..Len(os) |-> [ p \in SlotPositions |-> os[o].vals[p] ] ]

\* C15: for the address s of every slot of every live object, holding the
\* reference to the VTableData {offset, vtable}, the five dereferences
\* (ThinRef::deref, ThinRefMut::deref, ThinRefMut::deref_mut,
\* ThinBox::deref, ThinBox::deref_mut) all give (s - offset, vtable); what
\* a step of the program got from any of them is that pair for the handle
\* it used; and a step that dereferences changes no slot and no static.
C15_DerefPathsAgree ==
    /\ [](/\ \A o \in LiveIds : \A i \in 1..Len(Impls) :
               LET s == get_vptr(objs[o].base, i)
                   d == VTableDataAt(ReadWord(objs, s))
                   fat == [data |-> s - d.offset, vtable |-> d.vtable]
                   b == Handle("ThinBox", i, s, o)
               IN  /\ ThinRef_deref(objs, s) = fat
                   /\ ThinRefMut_deref(objs, s) = fat
                   /\ ThinRefMut_deref_mut(objs, s) = fat
                   /\ ThinBox_deref(objs, b) = fat
                   /\ ThinBox_deref_mut(objs, b) = fat
          /\ last.op \in FiveDerefOps =>
               LET h == IF last.op \in {"ThinBox::deref", "ThinBox::deref_mut"}
                        THEN tbox ELSE xx
                   d == VTableDataAt(ReadWord(objs, h.ptr))
               IN  /\ last.data = h.ptr - d.offset
                   /\ last.vtable = d.vtable)
    /\ [][last'.op \in FiveDerefOps =>
             /\ statics' = statics
             /\ SlotWords(objs') = SlotWords(objs)]_vars

\* A write has just been made through deref_mut of the ThinBox of the
\* second of two Foobar3, held by the slot of its second capability, which
\* is not at the object's base.
C15_Witness ==
    /\ last.op = "ThinBox::deref_mut"
    /\ Len(Impls) = 2
    /\ tbox.of = 2 /\ tbox.im = 2
    /\ tbox.ptr # objs[2].base
    /\ last.val = 1
    /\ objs[1].live

(***************************************************************************)
(* Properties of the programs that move their objects (SpecMove).          *)
(***************************************************************************)
\* C16: a slot holds the reference to its capability's static VTableData
\* and nothing else, wherever the object is, was or was copied from; so a
\* thin reference made of an object where it is now, after any moves or as
\* a bitwise copy of another, holds the slot's address there and
\* dereferences to the object's base address now, not to the address it
\* came from, with the capability's dispatch table, and a call through it
\* returns what the direct call returns.
C16_MovedObjectValid ==
    /\ \A o \in LiveIds : \A i \in 1..Len(Impls) :
        LET h == as_thin_ref(o, i)
            fat == ThinRef_deref(objs, h.ptr)
        IN  /\ objs[o].vals[SlotPosOf(i)] = init(i)
            /\ h.ptr = objs[o].base + FieldOffset(SlotPosOf(i))
            /\ fat = DirectDyn(objs[o].base, i)
            /\ fat.data # objs[o].old
            /\ myfn(objs, fat) = myfn(objs, DirectDyn(objs[o].base, i))
            /\ ~myfn(objs, fat).ub
    /\ last.op \in FiveDerefOps =>
        /\ last.data = objs[last.of].base
        /\ last.data # objs[last.of].old
        /\ last.vtable = VtableOf(result.ident, TraitOf(last.im))
        /\ ~last.ub

\* A call through a ThinRef made of the second of two Foobar3 after it
\* was moved away from the place it was built in, for its second
\* capability, whose slot is not at the object's base.
C16_Witness ==
    /\ last.op = "ThinRef::deref"
    /\ Len(Impls) = 2
    /\ last.of = 2 /\ last.im = 2
    /\ objs[2].old = BaseOf(2)
    /\ objs[2].base # BaseOf(2)
    /\ last.data = objs[2].base
    /\ xx.ptr # objs[2].base
    /\ objs[1].live

(***************************************************************************)
(* Properties of the macro (SpecGen).                                      *)
(***************************************************************************)
Expanded == result # Pending

\* The text of a string literal is a path: identifiers with "::" between.
WellFormedPathText(toks) ==
    /\ Len(toks) % 2 = 1
    /\ \A k \in 1..Len(toks) : IF k % 2 = 1 THEN IsIdent(toks[k]) ELSE toks[k] = "::"

ValidArg(a) == a.kind = "Path" \/ (a.kind = "LitStr" /\ WellFormedPathText(a.toks))
AllArgsValid(at) == \A k \in 1..Len(at) : ValidArg(at[k])
FirstInvalid(at) == CHOOSE k \in 1..Len(at) : ~ValidArg(at[k]) /\ \A j \in 1..(k - 1) : ValidArg(at[j])
ErrorOfArg(a) == IF a.kind = "LitStr" THEN ErrParsePath ELSE ErrNotTrait

NoOutput == result.fields = <<>> /\ result.impls = <<>> /\ result.ident = ""
OnlyLifetimes(g) == \A k \in 1..Len(g) : g[k] = "lifetime"

\* C8 as stated: every declaration with a type parameter is rejected with
\* 'vptr does not support generics' and no output, and a declaration whose
\* only generic parameters are lifetimes is accepted.
C8_AsStated ==
    Expanded =>
        /\ HasTypeParam(item.generics) =>
              (~result.ok /\ result.err = ErrGenerics /\ NoOutput)
        /\ (OnlyLifetimes(item.generics) /\ AllArgsValid(attr)) => result.ok

\* C8, amended: every declaration with a type parameter is rejected with
\* no output; the error is 'vptr does not support generics' when every
\* argument of the capability list is valid, and the error of the first
\* invalid argument otherwise; a declaration whose only generic parameters
\* are lifetimes is accepted when every argument is valid.
C8_GenericsRejected ==
    Expanded =>
        /\ HasTypeParam(item.generics) =>
              /\ ~result.ok
              /\ NoOutput
              /\ result.err = IF AllArgsValid(attr) THEN ErrGenerics
                              ELSE ErrorOfArg(attr[FirstInvalid(attr)])
        /\ (OnlyLifetimes(item.generics) /\ AllArgsValid(attr)) =>
              (result.ok /\ result.generics = item.generics)

\* A declaration with a type parameter and two valid capabilities, refused
\* for its generics.
C8_Witness ==
    /\ Expanded
    /\ item.generics = <<"type">>
    /\ Len(attr) = 2 /\ AllArgsValid(attr)
    /\ result = GenErr(ErrGenerics)

\* The paths the valid arguments name.
PathOfArg(a) == IF a.kind = "Path" THEN a.path ELSE ParsePath(a.toks).path
NamesTwice(at) == \E j, k \in 1..Len(at) : j < k /\ PathOfArg(at[j]) = PathOfArg(at[k])

\* C9: a capability list that names the same capability twice is rejected
\* by the macro, so that no type gets two slots for one capability.
C9_DuplicateRejected ==
    (Expanded /\ AllArgsValid(attr) /\ NamesTwice(attr)) =>
        /\ ~result.ok
        /\ NoOutput

\* C10: when some argument is neither a path nor a string literal that
\* parses as a path, the macro returns an error, 'attribute of vptr must be
\* a trait' or the path parse error (that of the first such argument), and no
\* output, whatever the other arguments and the declaration are.
C10_BadArgumentRejected ==
    (Expanded /\ ~AllArgsValid(attr)) =>
        /\ ~result.ok
        /\ result.err \in {ErrNotTrait, ErrParsePath}
        /\ result.err = ErrorOfArg(attr[FirstInvalid(attr)])
        /\ NoOutput

\* A valid path followed by an integer literal, on a declaration with a
\* type parameter: the argument's error is the one returned.
C10_Witness ==
    /\ Expanded
    /\ Len(attr) = 2
    /\ attr[1] = PathArg(<<"MyTrait">>)
    /\ attr[2] = OtherArg("LitInt")
    /\ HasTypeParam(item.generics)
    /\ result = GenErr(ErrNotTrait)

\* The capabilities of the list, in order, and the names of the fields of
\* the output.
PathsOf(at) == [ i \in 1..Len(at) |-> PathOfArg(at[i]) ]
DistinctFieldNames ==
    \A p, q \in 1..Len(result.fields) :
        p # q => result.fields[p].name # result.fields[q].name

\* C11: for a declaration with k fields and a list of n capabilities the
\* output keeps the k fields as they are and in order and has exactly n
\* slot fields after them in list order; the slot of the i-th capability
\* (i from 1) is named vptr_<last path segment> in a named struct and has
\* index k + i - 1 in a tuple-like or field-less struct (k = 0 there); the
\* generated get_vptr and get_vptr_mut of capability i name that field, and
\* the name resolves to the i-th slot whenever the output's field names are
\* distinct.
C11_SlotsAppended ==
    (Expanded /\ result.ok) =>
        LET k == Len(item.fields)
            n == Len(attr)
            paths == PathsOf(attr)
        IN  /\ result.ident = item.ident
            /\ result.kind = (IF item.kind = "Named" THEN "Named" ELSE "Unnamed")
            /\ Len(result.fields) = k + n
            /\ \A p \in 1..k : result.fields[p] = item.fields[p]
            /\ Len(result.impls) = n
            /\ \A i \in 1..n :
                /\ result.fields[k + i].ty = VPtrTy(item.ident, paths[i])
                /\ result.fields[k + i].name =
                       (IF item.kind = "Named"
                        THEN "vptr_" \o paths[i][Len(paths[i])]
                        ELSE k + i - 1)
                /\ result.impls[i].trait = paths[i]
                /\ result.impls[i].field = result.fields[k + i].name
                /\ DistinctFieldNames =>
                       /\ FieldPos(result.impls[i].field) = k + i
                       /\ IsSlot(FieldPos(result.impls[i].field))

\* A tuple struct of two fields with two different capabilities: the slots
\* are the fields 2 and 3, after the fields 0 and 1.
C11_Witness ==
    /\ Expanded /\ result.ok
    /\ item.kind = "Unnamed" /\ Len(item.fields) = 2
    /\ Len(attr) = 2 /\ PathOfArg(attr[1]) # PathOfArg(attr[2])
    /\ result.impls[1].field = 2 /\ result.impls[2].field = 3
    /\ result.fields[4].ty = VPtrTy("S", PathOfArg(attr[2]))

(***************************************************************************)
(* Properties of the threads that call init() (SpecInit).                  *)
(***************************************************************************)
HasRef(t) == threads[t].pc \in {"has_ref", "read_offset", "read_all"}
HasOffset(t) == threads[t].pc \in {"read_offset", "read_all"}
HasAll(t) == threads[t].pc = "read_all"

\* C12: whatever the interleaving of the threads' calls of init(), every
\* call for one impl block returns the reference to that block's one
\* static, every read through it gives the offset and the dispatch table
\* the probe computes for the block, any two threads agree on all three,
\* and no step changes the contents of a static.
C12_InitSingleton ==
    /\ [](\A t \in ThreadIds :
            /\ HasRef(t) => threads[t].ref = StaticRef(threads[t].im)
            /\ HasOffset(t) => threads[t].offset = ProbeOffset(Impls[threads[t].im])
            /\ HasAll(t) => threads[t].vtable = ProbeVtable(Impls[threads[t].im])
            /\ \A u \in ThreadIds :
                (threads[u].im = threads[t].im) =>
                    /\ (HasRef(t) /\ HasRef(u)) => threads[t].ref = threads[u].ref
                    /\ (HasOffset(t) /\ HasOffset(u)) =>
                           threads[t].offset = threads[u].offset
                    /\ (HasAll(t) /\ HasAll(u)) =>
                           threads[t].vtable = threads[u].vtable)
    /\ [][statics' = statics]_vars

\* Concurrent first use: one thread has read the whole VTableData of the
\* second impl block of Foobar3, whose offset is not 0, while another is
\* still inside its call of init() for the same block.
C12_Witness ==
    /\ Len(Impls) = 2
    /\ \E t, u \in ThreadIds :
        /\ t # u
        /\ threads[t].pc = "read_all" /\ threads[t].im = 2
        /\ threads[t].offset > 0
        /\ threads[u].pc = "in_init" /\ threads[u].im = 2

====
